---- MODULE Spec2Model ----
(***************************************************************************)
(* Model of src/archivo.py: LogAnalyzerNASA and main.                      *)
(*                                                                         *)
(* A text line is a sequence of one-character strings, so that the regular *)
(* expression of line 17 and the timestamp format of line 44 are matched   *)
(* character by character.  Two specifications are given:                  *)
(*   Spec     the run of main() (lines 172-194) on a fetched response;     *)
(*   SpecOps  the reading methods of an analyzer (lines 68-169) called in  *)
(*            any order on a record collection.                            *)
(* Line 119 of the source lacks the closing quote of its string literal;   *)
(* the model reads it as the literal it evidently is.                      *)
(***************************************************************************)
EXTENDS Integers, Sequences, FiniteSets

(***************************************************************************)
(* Bounds of the model.                                                    *)
(***************************************************************************)
MaxLines == 3
MaxEntries == 6

(***************************************************************************)
(* Characters.                                                             *)
(***************************************************************************)
Digits == <<"0", "1", "2", "3", "4", "5", "6", "7", "8", "9">>
Digit == {Digits[k] : k \in 1..10}
DigitVal(c) == (CHOOSE k \in 1..10 : Digits[k] = c) - 1

LowerLetters == <<"a", "b", "c", "d", "e", "f", "g", "h", "i", "j", "k", "l", "m",
                  "n", "o", "p", "q", "r", "s", "t", "u", "v", "w", "x", "y", "z">>
UpperLetters == <<"A", "B", "C", "D", "E", "F", "G", "H", "I", "J", "K", "L", "M",
                  "N", "O", "P", "Q", "R", "S", "T", "U", "V", "W", "X", "Y", "Z">>

\* str.lower() of one character
Lower(c) ==
    IF \E k \in 1..26 : UpperLetters[k] = c
    THEN LowerLetters[CHOOSE k \in 1..26 : UpperLetters[k] = c]
    ELSE c

\* the characters \s matches and str.strip() removes (a line holds no "\n":
\* it comes from split('\n'))
Whitespace == {" ", "\t", "\r", "\f"}

IsSpace(c) == c \in Whitespace
IsDigit(c) == c \in Digit

\* the character classes of the patterns: \S, \d, \s and [^\]]
InClass(c, cls) ==
    CASE cls = "S"    -> ~IsSpace(c)
      [] cls = "d"    -> IsDigit(c)
      [] cls = "s"    -> IsSpace(c)
      [] cls = "[^]]" -> c # "]"

\* int() of a non-empty run of decimal digits
RECURSIVE int(_)
int(ds) ==
    IF ds = <<>> THEN 0
    ELSE 10 * int(SubSeq(ds, 1, Len(ds) - 1)) + DigitVal(ds[Len(ds)])

\* the decimal digits of n, zero-filled to the given width
RECURSIVE ZeroFill(_, _)
ZeroFill(n, width) ==
    IF width = 0 THEN <<>>
    ELSE ZeroFill(n \div 10, width - 1) \o <<Digits[(n % 10) + 1]>>

(***************************************************************************)
(* The regular expression of line 17, as re.match applies it (anchored at  *)
(* the start of the line, not at its end):                                 *)
(*   (\S+) - - \[([^\]]+)\] "(\S+) (\S+) (\S+)" (\d{3}) (\d+|-)            *)
(***************************************************************************)

\* Where a greedy run of characters of class cls, started at position i,
\* stops: the first position at or after i whose character is not in the class.
RECURSIVE RunEnd(_, _, _)
RunEnd(s, i, cls) ==
    IF i <= Len(s) /\ InClass(s[i], cls) THEN RunEnd(s, i + 1, cls) ELSE i

\* the literal lit stands in s at position i
Lit(s, i, lit) ==
    /\ i + Len(lit) - 1 <= Len(s)
    /\ \A k \in 1..Len(lit) : s[i + k - 1] = lit[k]

NoMatch == [matched |-> FALSE, groups |-> <<>>]

\* match = re.match(self.regex_pattern, line); match.groups()
\* A greedy group followed by a literal that starts with a character outside
\* the group's class can only end where its run ends; the third \S+ of the
\* request is followed by '" ', so it ends one character before its run does.
regex_match(line) ==
    LET c0 == 1
        c1 == RunEnd(line, c0, "S")
        t0 == c1 + 6
        t1 == RunEnd(line, t0, "[^]]")
        m0 == t1 + 3
        m1 == RunEnd(line, m0, "S")
        p0 == m1 + 1
        p1 == RunEnd(line, p0, "S")
        q0 == p1 + 1
        q1 == RunEnd(line, q0, "S")
        s0 == q1 + 1
        b0 == s0 + 4
        b1 == RunEnd(line, b0, "d")
    IN  IF /\ c1 > c0
           /\ Lit(line, c1, <<" ", "-", " ", "-", " ", "[">>)
           /\ t1 > t0
           /\ Lit(line, t1, <<"]", " ", "\"">>)
           /\ m1 > m0
           /\ Lit(line, m1, <<" ">>)
           /\ p1 > p0
           /\ Lit(line, p1, <<" ">>)
           /\ q1 - 1 > q0
           /\ Lit(line, q1 - 1, <<"\"", " ">>)
           /\ s0 + 2 <= Len(line)
           /\ \A k \in s0..(s0 + 2) : IsDigit(line[k])
           /\ Lit(line, s0 + 3, <<" ">>)
           /\ (b1 > b0 \/ Lit(line, b0, <<"-">>))
        THEN [matched |-> TRUE,
              groups  |-> << SubSeq(line, c0, c1 - 1),
                             SubSeq(line, t0, t1 - 1),
                             SubSeq(line, m0, m1 - 1),
                             SubSeq(line, p0, p1 - 1),
                             SubSeq(line, q0, q1 - 2),
                             SubSeq(line, s0, s0 + 2),
                             IF b1 > b0 THEN SubSeq(line, b0, b1 - 1)
                                        ELSE <<"-">> >>]
        ELSE NoMatch

(***************************************************************************)
(* datetime.strptime(log_time, '%d/%b/%Y:%H:%M:%S %z') of line 44 and      *)
(* strftime('%Y-%m-%d') of line 45.  The directives are the regular        *)
(* expressions the library compiles them to, the whole string must be      *)
(* consumed, and the values must make a date and an offset under 24 hours. *)
(***************************************************************************)

\* %b: the abbreviated month names, matched without regard to case
MonthNames == << <<"j", "a", "n">>, <<"f", "e", "b">>, <<"m", "a", "r">>,
                 <<"a", "p", "r">>, <<"m", "a", "y">>, <<"j", "u", "n">>,
                 <<"j", "u", "l">>, <<"a", "u", "g">>, <<"s", "e", "p">>,
                 <<"o", "c", "t">>, <<"n", "o", "v">>, <<"d", "e", "c">> >>

IsLeap(y) == (y % 4 = 0 /\ y % 100 # 0) \/ y % 400 = 0

DaysIn(y, m) ==
    IF m = 2 THEN (IF IsLeap(y) THEN 29 ELSE 28)
    ELSE IF m \in {4, 6, 9, 11} THEN 30 ELSE 31

\* %d: 3[0-1]|[1-2]\d|0[1-9]|[1-9]| [1-9]
MatchesDay(d) ==
    \/ Len(d) = 1 /\ IsDigit(d[1]) /\ d[1] # "0"
    \/ /\ Len(d) = 2
       /\ \/ d[1] = "3" /\ d[2] \in {"0", "1"}
          \/ d[1] \in {"1", "2"} /\ IsDigit(d[2])
          \/ d[1] \in {"0", " "} /\ IsDigit(d[2]) /\ d[2] # "0"

\* %H: 2[0-3]|[0-1]\d|\d
MatchesHour(h) ==
    \/ Len(h) = 1 /\ IsDigit(h[1])
    \/ /\ Len(h) = 2
       /\ \/ h[1] = "2" /\ h[2] \in {"0", "1", "2", "3"}
          \/ h[1] \in {"0", "1"} /\ IsDigit(h[2])

\* %M: [0-5]\d|\d
MatchesMinute(m) ==
    \/ Len(m) = 1 /\ IsDigit(m[1])
    \/ Len(m) = 2 /\ m[1] \in {"0", "1", "2", "3", "4", "5"} /\ IsDigit(m[2])

\* %S: 6[0-1]|[0-5]\d|\d
MatchesSecond(s) ==
    \/ MatchesMinute(s)
    \/ Len(s) = 2 /\ s[1] = "6" /\ s[2] \in {"0", "1"}

\* %z: [+-]\d\d:?[0-5]\d(:?[0-5]\d(\.\d{1,6})?)?|Z, with the colons used
\* consistently and the offset strictly under 24 hours
MatchesOffset(z) ==
    \/ z = <<"Z">>
    \/ /\ Len(z) >= 5
       /\ z[1] \in {"+", "-"}
       /\ IsDigit(z[2]) /\ IsDigit(z[3])
       /\ int(SubSeq(z, 2, 3)) < 24
       /\ LET colon == z[4] = ":"
              mm    == IF colon THEN 5 ELSE 4
              rest  == SubSeq(z, mm + 2, Len(z))
              sec   == IF rest # <<>> /\ rest[1] = ":" THEN Tail(rest) ELSE rest
              frac  == SubSeq(sec, 3, Len(sec))
          IN  /\ Len(z) >= mm + 1
              /\ MatchesMinute(SubSeq(z, mm, mm + 1))
              /\ \/ rest = <<>>
                 \/ /\ colon <=> rest[1] = ":"
                    /\ Len(sec) >= 2
                    /\ MatchesMinute(SubSeq(sec, 1, 2))
                    /\ \/ frac = <<>>
                       \/ /\ frac[1] = "."
                          /\ Len(frac) \in 2..7
                          /\ \A k \in 2..Len(frac) : IsDigit(frac[k])

\* the position of the first character c of s at or after i (Len(s) + 1: none)
RECURSIVE Find(_, _, _)
Find(s, i, c) ==
    IF i <= Len(s) /\ s[i] # c THEN Find(s, i + 1, c) ELSE i

NoDate == [ok |-> FALSE, year |-> 0, month |-> 0, day |-> 0]

\* the date strptime returns, or NoDate where it raises ValueError
strptime(ts) ==
    LET d1 == Find(ts, 1, "/")
        b0 == d1 + 1
        y0 == b0 + 4
        h0 == y0 + 5
        h1 == Find(ts, h0, ":")
        n0 == h1 + 1
        n1 == Find(ts, n0, ":")
        s0 == n1 + 1
        s1 == RunEnd(ts, s0, "d")
        z0 == RunEnd(ts, s1, "s")
        dd   == SubSeq(ts, 1, d1 - 1)
        name == [k \in 1..3 |-> Lower(ts[b0 + k - 1])]
        yyyy == SubSeq(ts, y0, y0 + 3)
        day  == int(IF dd[1] = " " THEN Tail(dd) ELSE dd)
        mon  == CHOOSE k \in 1..12 : MonthNames[k] = name
    IN  IF /\ MatchesDay(dd)
           /\ y0 + 4 <= Len(ts)
           /\ \E k \in 1..12 : MonthNames[k] = name
           /\ ts[y0 - 1] = "/"
           /\ \A k \in 1..4 : IsDigit(yyyy[k])
           /\ ts[y0 + 4] = ":"
           /\ MatchesHour(SubSeq(ts, h0, h1 - 1))
           /\ MatchesMinute(SubSeq(ts, n0, n1 - 1))
           /\ MatchesSecond(SubSeq(ts, s0, s1 - 1))
           /\ int(SubSeq(ts, s0, s1 - 1)) < 60
           /\ z0 > s1
           /\ MatchesOffset(SubSeq(ts, z0, Len(ts)))
           /\ int(yyyy) >= 1
           /\ day <= DaysIn(int(yyyy), mon)
        THEN [ok |-> TRUE, year |-> int(yyyy), month |-> mon, day |-> day]
        ELSE NoDate

\* parsed_date.strftime('%Y-%m-%d'), the year printed as four digits (what
\* every platform prints from the year 1000 on; glibc leaves earlier years
\* unpadded)
strftime(date) ==
    ZeroFill(date.year, 4) \o <<"-">> \o ZeroFill(date.month, 2)
        \o <<"-">> \o ZeroFill(date.day, 2)

\* date_formatted with no except branch keeping the original string
date_formatted_strict(log_time) ==
    IF strptime(log_time).ok THEN strftime(strptime(log_time)) ELSE <<>>

\* lines 43-47: the date of a record
date_formatted(log_time) ==
    IF strptime(log_time).ok THEN strftime(strptime(log_time)) ELSE log_time

\* not line.strip(): the line is empty or all whitespace
IsBlank(line) == \A k \in 1..Len(line) : IsSpace(line[k])

(***************************************************************************)
(* Lines 40-63: the record of a line the pattern matched.                  *)
(***************************************************************************)
\* bytes_value without the test for the sentinel
bytes_value_unguarded(bytes_transferred) ==
    IF bytes_transferred = <<"-">> THEN -1 ELSE int(bytes_transferred)

bytes_value(bytes_transferred) ==
    IF bytes_transferred = <<"-">> THEN 0 ELSE int(bytes_transferred)

log_entry(groups) ==
    [client            |-> groups[1],
     log_time          |-> date_formatted(groups[2]),
     request_method    |-> groups[3],
     request_path      |-> groups[4],
     request_protocol  |-> groups[5],
     response_code     |-> int(groups[6]),
     bytes_transferred |-> bytes_value(groups[7])]

\* process_line with the record put in front of the collection
process_line_prepend(entries, line) ==
    IF IsBlank(line) THEN entries
    ELSE IF regex_match(line).matched
         THEN <<log_entry(regex_match(line).groups)>> \o entries
         ELSE entries

\* process_line keeping what it could of a line the pattern did not match
process_line_partial(entries, line) ==
    IF IsBlank(line) THEN entries
    ELSE IF regex_match(line).matched
         THEN Append(entries, log_entry(regex_match(line).groups))
         ELSE Append(entries, [client |-> line])

\* lines 35-64: one iteration of the loop of analyze_logs on the collection
process_line(entries, line) ==
    IF IsBlank(line) THEN entries
    ELSE IF regex_match(line).matched
         THEN Append(entries, log_entry(regex_match(line).groups))
         ELSE entries

\* response.text.split('\n')
RECURSIVE split(_)
split(text) ==
    LET nl == Find(text, 1, "\n")
    IN  IF nl > Len(text) THEN <<text>>
        ELSE <<SubSeq(text, 1, nl - 1)>> \o split(SubSeq(text, nl + 1, Len(text)))

(***************************************************************************)
(* The aggregates.  A Counter or dict is the sequence of its <<key, count>>*)
(* items in insertion order.                                               *)
(***************************************************************************)
HasKey(items, key) == \E k \in 1..Len(items) : items[k][1] = key

\* counter[key] += 1
Increment(items, key) ==
    IF HasKey(items, key)
    THEN [k \in 1..Len(items) |->
            IF items[k][1] = key THEN <<key, items[k][2] + 1>> ELSE items[k]]
    ELSE Append(items, <<key, 1>>)

\* Counter(values), and the defaultdict(int) loop of lines 108-110
RECURSIVE Counter(_)
Counter(values) ==
    IF values = <<>> THEN <<>>
    ELSE Increment(Counter(SubSeq(values, 1, Len(values) - 1)), values[Len(values)])

\* InsertByCount putting an item before the items of equal count
RECURSIVE InsertByCount_unstable(_, _)
InsertByCount_unstable(sorted, item) ==
    IF sorted = <<>> THEN <<item>>
    ELSE IF sorted[Len(sorted)][2] > item[2] THEN Append(sorted, item)
    ELSE Append(InsertByCount_unstable(SubSeq(sorted, 1, Len(sorted) - 1), item),
                sorted[Len(sorted)])

\* sorted(items, key=count, reverse=True): stable, so equal counts keep their order
RECURSIVE InsertByCount(_, _)
InsertByCount(sorted, item) ==
    IF sorted = <<>> THEN <<item>>
    ELSE IF sorted[Len(sorted)][2] >= item[2] THEN Append(sorted, item)
    ELSE Append(InsertByCount(SubSeq(sorted, 1, Len(sorted) - 1), item),
                sorted[Len(sorted)])

RECURSIVE SortByCount(_)
SortByCount(items) ==
    IF items = <<>> THEN <<>>
    ELSE InsertByCount(SortByCount(SubSeq(items, 1, Len(items) - 1)),
                       items[Len(items)])

\* Counter.most_common(n) = heapq.nlargest(n, items, key=count), which is
\* sorted(items, key=count, reverse=True)[:n]
most_common(items, n) ==
    SubSeq(SortByCount(items), 1, IF n < Len(items) THEN n ELSE Len(items))

\* the characters of the model in code point order
CodePoints == <<"\t", "\n", "\f", "\r", " ", "\"", "+", "-", ".", "/">> \o Digits
                 \o <<":">> \o UpperLetters \o <<"[", "]">> \o LowerLetters
Ord(c) == CHOOSE k \in 1..Len(CodePoints) : CodePoints[k] = c

\* a < b for two strings
RECURSIVE StrLess(_, _)
StrLess(a, b) ==
    IF b = <<>> THEN FALSE
    ELSE IF a = <<>> THEN TRUE
    ELSE IF a[1] = b[1] THEN StrLess(Tail(a), Tail(b))
    ELSE Ord(a[1]) < Ord(b[1])

\* sorted(keys)
RECURSIVE InsertStr(_, _)
InsertStr(sorted, key) ==
    IF sorted = <<>> THEN <<key>>
    ELSE IF StrLess(key, sorted[Len(sorted)])
         THEN Append(InsertStr(SubSeq(sorted, 1, Len(sorted) - 1), key),
                     sorted[Len(sorted)])
         ELSE Append(sorted, key)

\* SortStr leaving the keys in the order they were first met
SortStr_unsorted(keys) == keys

RECURSIVE SortStr(_)
SortStr(keys) ==
    IF keys = <<>> THEN <<>>
    ELSE InsertStr(SortStr(SubSeq(keys, 1, Len(keys) - 1)), keys[Len(keys)])

Lookup(items, key) == items[CHOOSE k \in 1..Len(items) : items[k][1] = key][2]

RECURSIVE Sum(_)
Sum(values) ==
    IF values = <<>> THEN 0 ELSE values[1] + Sum(Tail(values))

\* a / b of line 160, kept as the fraction, and the integer 0 of its else branch
true_div(a, b) == [num |-> a, den |-> b]
Zero == [num |-> 0, den |-> 1]

(***************************************************************************)
(* State.                                                                  *)
(***************************************************************************)
VARIABLES
    pc,           \* where main() stands; "api" when the methods are called directly
    lines,        \* the lines fetch_logs returned to analyze_logs
    idx,          \* the position of the for loop of line 34 in lines
    log_entries,  \* self.log_entries
    requests,     \* the number of requests.get calls made
    status_code,  \* response.status_code of the last response (0: none yet)
    files,        \* each output file: <<>> while unwritten, else <<its content>>
    stdout,       \* the last line printed
    raised        \* str(e) of the exception the last call let through ("": none)

vars == <<pc, lines, idx, log_entries, requests, status_code, files, stdout, raised>>

JsonFile    == "nasa_logs_processed.json"
MethodsPng  == "nasa_http_methods_distribution.png"
StatusPng   == "nasa_status_codes_distribution.png"
DailyPng    == "nasa_daily_requests_trend.png"
TopPathsPng == "nasa_top_requested_paths.png"
ReportFile  == "nasa_analysis_report.json"
FileNames   == {JsonFile, MethodsPng, StatusPng, DailyPng, TopPathsPng, ReportFile}

HttpOk       == 200
DefaultTopN  == 10
ReportTopN   == 10

Column(entries, field) == [k \in 1..Len(entries) |-> entries[k][field]]
Keys(items) == [k \in 1..Len(items) |-> items[k][1]]
Values(items) == [k \in 1..Len(items) |-> items[k][2]]

\* What a call of a method leaves behind: the collection, the files, the last
\* line printed and str(e) of the exception it raised ("": it returned).  The
\* drawing calls of matplotlib and seaborn and the writing of files are taken
\* to succeed.
Outcome(entries, fs, out, exc) ==
    [log_entries |-> entries, files |-> fs, stdout |-> out, raised |-> exc]

Written(name, content) == [files EXCEPT ![name] = <<content>>]

\* lines 68-72
save_to_json ==
    Outcome(log_entries, Written(JsonFile, log_entries), "Datos guardados", "")

\* lines 74-85
plot_http_methods_distribution ==
    LET method_distribution == Counter(Column(log_entries, "request_method"))
    IN  Outcome(log_entries,
                Written(MethodsPng, [labels |-> Keys(method_distribution),
                                     x      |-> Values(method_distribution)]),
                stdout, "")

\* lines 87-104
plot_status_codes_distribution ==
    LET status_distribution == Counter(Column(log_entries, "response_code"))
    IN  Outcome(log_entries,
                Written(StatusPng, [x |-> Keys(status_distribution),
                                    y |-> Values(status_distribution)]),
                stdout, "")

\* lines 108-113: the two lists the trend is drawn from
daily_trend(entries) ==
    LET daily_requests_count == Counter(Column(entries, "log_time"))
        dates_sorted  == SortStr(Keys(daily_requests_count))
        counts_sorted == [k \in 1..Len(dates_sorted) |->
                             Lookup(daily_requests_count, dates_sorted[k])]
    IN  [x |-> dates_sorted, y |-> counts_sorted]

\* plot_daily_requests_trend taking each entry out of the collection as it counts it
plot_daily_requests_trend_draining ==
    Outcome(<<>>, Written(DailyPng, daily_trend(log_entries)), stdout, "")

\* lines 106-124
plot_daily_requests_trend ==
    Outcome(log_entries, Written(DailyPng, daily_trend(log_entries)), stdout, "")

\* lines 128-129 and 154: Counter(paths).most_common(n)
top_paths_of(entries, top_n) ==
    most_common(Counter(Column(entries, "request_path")), top_n)

\* str(e) of the ValueError that unpacking an empty zip() into two names raises
UnpackError == "not enough values to unpack (expected 2, got 0)"

\* lines 126-143 (the title of line 137 names top_n); paths, counts =
\* zip(*top_paths) of line 132 raises ValueError when top_paths is empty,
\* before anything is drawn or saved
plot_top_requested_paths(top_n) ==
    LET top_paths == top_paths_of(log_entries, top_n)
    IN  IF top_paths = <<>>
        THEN Outcome(log_entries, files, stdout, UnpackError)
        ELSE Outcome(log_entries,
                     Written(TopPathsPng, [title |-> top_n,
                                           x     |-> Values(top_paths),
                                           y     |-> Keys(top_paths)]),
                     stdout, "")

\* lines 147-164
report_data(entries) ==
    LET total_requests_count    == Len(entries)
        unique_clients_count    ==
            Cardinality({entries[k].client : k \in 1..Len(entries)})
        total_bytes_transferred == Sum(Column(entries, "bytes_transferred"))
    IN  [total_requests            |-> total_requests_count,
         unique_clients            |-> unique_clients_count,
         total_bytes_transferred   |-> total_bytes_transferred,
         average_bytes_per_request |->
             IF total_requests_count > 0
             THEN true_div(total_bytes_transferred, total_requests_count)
             ELSE Zero,
         http_methods_count        |-> Counter(Column(entries, "request_method")),
         status_codes_count        |-> Counter(Column(entries, "response_code")),
         top_10_paths              |-> top_paths_of(entries, ReportTopN)]

\* str(e) of the ZeroDivisionError of a / 0
DivisionError == "division by zero"

\* generate_analysis_report dividing without the test of line 160
generate_analysis_report_unguarded ==
    IF Len(log_entries) = 0
    THEN Outcome(log_entries, files, stdout, DivisionError)
    ELSE Outcome(log_entries, Written(ReportFile, report_data(log_entries)),
                 "Reporte generado en nasa_analysis_report.json", "")

\* lines 145-169
generate_analysis_report ==
    Outcome(log_entries, Written(ReportFile, report_data(log_entries)),
            "Reporte generado en nasa_analysis_report.json", "")

(***************************************************************************)
(* The lines a response body is made of.                                   *)
(***************************************************************************)
\* 127.0.0.1 - - [10/Jul/1995:08:00:00 -0500] "GET /index.html HTTP/1.0" 200 1024
LineGood ==
    <<"1", "2", "7", ".", "0", ".", "0", ".", "1", " ", "-", " ", "-", " ",
      "[", "1", "0", "/", "J", "u", "l", "/", "1", "9", "9", "5", ":", "0",
      "8", ":", "0", "0", ":", "0", "0", " ", "-", "0", "5", "0", "0", "]",
      " ", "\"", "G", "E", "T", " ", "/", "i", "n", "d", "e", "x", ".", "h",
      "t", "m", "l", " ", "H", "T", "T", "P", "/", "1", ".", "0", "\"", " ",
      "2", "0", "0", " ", "1", "0", "2", "4">>

\* h2 - - [9/jul/1995:8:0:0 Z] "GET /b HTTP/1.0" 404 -
LineSentinel ==
    <<"h", "2", " ", "-", " ", "-", " ", "[", "9", "/", "j", "u", "l", "/",
      "1", "9", "9", "5", ":", "8", ":", "0", ":", "0", " ", "Z", "]", " ",
      "\"", "G", "E", "T", " ", "/", "b", " ", "H", "T", "T", "P", "/", "1",
      ".", "0", "\"", " ", "4", "0", "4", " ", "-">>

\* 127.0.0.1 - - [1995-07-10 08:00] "POST /b H"" 200 7abc "-" "UA"  (text follows <bytes>)
LineRawTime ==
    <<"1", "2", "7", ".", "0", ".", "0", ".", "1", " ", "-", " ", "-", " ",
      "[", "1", "9", "9", "5", "-", "0", "7", "-", "1", "0", " ", "0", "8",
      ":", "0", "0", "]", " ", "\"", "P", "O", "S", "T", " ", "/", "b", " ",
      "H", "\"", "\"", " ", "2", "0", "0", " ", "7", "a", "b", "c", " ",
      "\"", "-", "\"", " ", "\"", "U", "A", "\"">>

\* h2 - - [30/Feb/1995:08:00:00 -0500] "GET /index.html H" 500 0
LineBadDay ==
    <<"h", "2", " ", "-", " ", "-", " ", "[", "3", "0", "/", "F", "e", "b",
      "/", "1", "9", "9", "5", ":", "0", "8", ":", "0", "0", ":", "0", "0",
      " ", "-", "0", "5", "0", "0", "]", " ", "\"", "G", "E", "T", " ", "/",
      "i", "n", "d", "e", "x", ".", "h", "t", "m", "l", " ", "H", "\"", " ",
      "5", "0", "0", " ", "0">>

\* an empty line
LineEmpty ==
    <<>>

\* a space and a tab
LineSpaces ==
    <<" ", "\t">>

\* h2 - - [10/Jul/1995:08:00:00 -0500] "GET /b HTTP/1.0" 20 7
LineShortStatus ==
    <<"h", "2", " ", "-", " ", "-", " ", "[", "1", "0", "/", "J", "u", "l",
      "/", "1", "9", "9", "5", ":", "0", "8", ":", "0", "0", ":", "0", "0",
      " ", "-", "0", "5", "0", "0", "]", " ", "\"", "G", "E", "T", " ", "/",
      "b", " ", "H", "T", "T", "P", "/", "1", ".", "0", "\"", " ", "2", "0",
      " ", "7">>

\*  127.0.0.1 - - [10/Jul/1995:08:00:00 -0500] "GET /index.html HTTP/1.0" 200 1024
LineIndented ==
    <<" ", "1", "2", "7", ".", "0", ".", "0", ".", "1", " ", "-", " ", "-",
      " ", "[", "1", "0", "/", "J", "u", "l", "/", "1", "9", "9", "5", ":",
      "0", "8", ":", "0", "0", ":", "0", "0", " ", "-", "0", "5", "0", "0",
      "]", " ", "\"", "G", "E", "T", " ", "/", "i", "n", "d", "e", "x", ".",
      "h", "t", "m", "l", " ", "H", "T", "T", "P", "/", "1", ".", "0", "\"",
      " ", "2", "0", "0", " ", "1", "0", "2", "4">>

InputLines ==
    {LineGood, LineSentinel, LineRawTime, LineBadDay,
     LineEmpty, LineSpaces, LineShortStatus, LineIndented}

\* the sequences over S of the lengths lo..hi
SeqsOf(S, lo, hi) == UNION {[1..n -> S] : n \in lo..hi}

\* '\n'.join(ls)
RECURSIVE join(_)
join(ls) ==
    IF Len(ls) = 1 THEN ls[1]
    ELSE ls[1] \o <<"\n">> \o join(Tail(ls))

\* the bodies a 200 response carries
Bodies == {join(ls) : ls \in SeqsOf(InputLines, 1, MaxLines)}

\* the statuses a response carries
StatusCodes == {HttpOk, 404, 500}

(***************************************************************************)
(* main(), lines 172-194.                                                  *)
(***************************************************************************)
NoFiles == [name \in FileNames |-> <<>>]

\* LogAnalyzerNASA() of line 175, before analyze_logs is called
Init ==
    /\ pc = "analyze_logs"
    /\ lines = <<>>
    /\ idx = 1
    /\ log_entries = <<>>
    /\ requests = 0
    /\ status_code = 0
    /\ files = NoFiles
    /\ stdout = ""
    /\ raised = ""

\* the except branch of lines 193-194: the message is printed and main returns
Caught(exc) ==
    /\ pc' = "failed"
    /\ stdout' = "Error durante el analisis: " \o exc
    /\ raised' = ""

\* lines 20-25 and 32: the response is a 200 and its text is split into lines
FetchOk ==
    /\ pc = "analyze_logs"
    /\ \E text \in Bodies :
         /\ requests' = requests + 1
         /\ status_code' = HttpOk
         /\ lines' = split(text)
         /\ idx' = 1
         /\ pc' = "for_line"
         /\ stdout' = "Descargando logs..."
    /\ UNCHANGED <<log_entries, files, raised>>

\* FetchFailed with the status not looked at: the run goes on with no lines
FetchFailedIgnored ==
    /\ pc = "analyze_logs"
    /\ \E status \in StatusCodes \ {HttpOk} :
         /\ requests' = requests + 1
         /\ status_code' = status
    /\ lines' = <<<<>>>>
    /\ idx' = 1
    /\ pc' = "for_line"
    /\ stdout' = "Descargando logs..."
    /\ UNCHANGED <<log_entries, files, raised>>

\* lines 20-27: any other status raises, analyze_logs lets it through and
\* main catches it
FetchFailed ==
    /\ pc = "analyze_logs"
    /\ \E status \in StatusCodes \ {HttpOk} :
         /\ requests' = requests + 1
         /\ status_code' = status
         /\ Caught("No se pudieron descargar los logs")
    /\ UNCHANGED <<lines, idx, log_entries, files>>

\* lines 34-64: one iteration of the loop
ForLine ==
    /\ pc = "for_line"
    /\ idx <= Len(lines)
    /\ log_entries' = process_line(log_entries, lines[idx])
    /\ idx' = idx + 1
    /\ UNCHANGED <<pc, lines, requests, status_code, files, stdout, raised>>

\* line 66: the loop is over
EndAnalyze ==
    /\ pc = "for_line"
    /\ idx > Len(lines)
    /\ stdout' = "Se procesaron las entradas de log"
    /\ pc' = "save_to_json"
    /\ UNCHANGED <<lines, idx, log_entries, requests, status_code, files, raised>>

\* A call made by main at position here: on return main goes on to next, on an
\* exception to its except branch.
MainCall(here, outcome, next) ==
    /\ pc = here
    /\ log_entries' = outcome.log_entries
    /\ files' = outcome.files
    /\ IF outcome.raised = ""
       THEN pc' = next /\ stdout' = outcome.stdout /\ raised' = ""
       ELSE Caught(outcome.raised)
    /\ UNCHANGED <<lines, idx, requests, status_code>>

\* line 179
MainSave == MainCall("save_to_json", save_to_json, "visualize")

\* line 182
Visualize ==
    /\ pc = "visualize"
    /\ pc' = "plot_http_methods"
    /\ stdout' = "Generando visualizaciones..."
    /\ UNCHANGED <<lines, idx, log_entries, requests, status_code, files, raised>>

\* line 183
MainPlotMethods ==
    MainCall("plot_http_methods", plot_http_methods_distribution, "plot_status_codes")
\* line 184
MainPlotStatus ==
    MainCall("plot_status_codes", plot_status_codes_distribution, "plot_daily")
\* line 185
MainPlotDaily == MainCall("plot_daily", plot_daily_requests_trend, "plot_top_paths")
\* line 186
MainPlotTop ==
    MainCall("plot_top_paths", plot_top_requested_paths(DefaultTopN), "report")
\* line 189
MainReport == MainCall("report", generate_analysis_report, "completed")

\* line 191
Completed ==
    /\ pc = "completed"
    /\ pc' = "done"
    /\ stdout' = "Analisis completado exitosamente!"
    /\ UNCHANGED <<lines, idx, log_entries, requests, status_code, files, raised>>

Next ==
    \/ FetchOk
    \/ FetchFailed
    \/ ForLine
    \/ EndAnalyze
    \/ MainSave
    \/ Visualize
    \/ MainPlotMethods
    \/ MainPlotStatus
    \/ MainPlotDaily
    \/ MainPlotTop
    \/ MainReport
    \/ Completed

Spec == Init /\ [][Next]_vars

(***************************************************************************)
(* The methods of lines 68-169 called directly, in any order, on an        *)
(* analyzer whose analyze_logs has returned.  The collection is any        *)
(* sequence of the records analyze_logs builds from these matches.         *)
(***************************************************************************)
\* h1 [2023-01-02] "GET /a H" 200 1024: the timestamp does not parse
GroupsA ==
    << <<"h", "1">>,
       <<"2", "0", "2", "3", "-", "0", "1", "-", "0", "2">>,
       <<"G", "E", "T">>,
       <<"/", "a">>,
       <<"H">>,
       <<"2", "0", "0">>,
       <<"1", "0", "2", "4">> >>

\* h2 [2023-01-01] "POST /b H" 404 -
GroupsB ==
    << <<"h", "2">>,
       <<"2", "0", "2", "3", "-", "0", "1", "-", "0", "1">>,
       <<"P", "O", "S", "T">>,
       <<"/", "b">>,
       <<"H">>,
       <<"4", "0", "4">>,
       <<"-">> >>

\* h1 [2/Jan/2023:08:00:00 +0000] "GET /c H" 200 7: the date is 2023-01-02
GroupsC ==
    << <<"h", "1">>,
       <<"2", "/", "J", "a", "n", "/", "2", "0", "2", "3", ":", "0", "8", ":", "0", "0", ":", "0", "0", " ", "+", "0", "0", "0", "0">>,
       <<"G", "E", "T">>,
       <<"/", "c">>,
       <<"H">>,
       <<"2", "0", "0">>,
       <<"7">> >>


RecordPool == {log_entry(GroupsA), log_entry(GroupsB), log_entry(GroupsC)}

\* the values of top_n the top paths are asked with
TopNs == {2, DefaultTopN}

InitOps ==
    /\ pc = "api"
    /\ lines = <<>>
    /\ idx = 1
    /\ log_entries \in SeqsOf(RecordPool, 0, MaxEntries)
    /\ requests = 1
    /\ status_code = HttpOk
    /\ files = NoFiles
    /\ stdout = "Se procesaron las entradas de log"
    /\ raised = ""

\* A call made from outside main: an exception reaches the caller.
ApiCall(outcome) ==
    /\ pc = "api"
    /\ log_entries' = outcome.log_entries
    /\ files' = outcome.files
    /\ stdout' = outcome.stdout
    /\ raised' = outcome.raised
    /\ UNCHANGED <<pc, lines, idx, requests, status_code>>

CallSave == ApiCall(save_to_json)
CallPlotMethods == ApiCall(plot_http_methods_distribution)
CallPlotStatus == ApiCall(plot_status_codes_distribution)
CallPlotDaily == ApiCall(plot_daily_requests_trend)
CallPlotTop == \E top_n \in TopNs : ApiCall(plot_top_requested_paths(top_n))
CallReport == ApiCall(generate_analysis_report)

NextOps ==
    \/ CallSave
    \/ CallPlotMethods
    \/ CallPlotStatus
    \/ CallPlotDaily
    \/ CallPlotTop
    \/ CallReport

SpecOps == InitOps /\ [][NextOps]_vars

(***************************************************************************)
(* The grammar of a log line, stated on its own:                           *)
(*   <client> - - [<timestamp>] "<method> <path> <protocol>" <status> <bytes> *)
(* A parse of a line is the tuple of the last positions of its seven       *)
(* fields; what follows <bytes> is not constrained.                        *)
(***************************************************************************)
AllOf(line, i, j, S) == i <= j /\ j <= Len(line) /\ \A k \in i..j : line[k] \in S
NoneOf(line, i, j, S) == i <= j /\ j <= Len(line) /\ \A k \in i..j : line[k] \notin S
At(line, i, c) == i <= Len(line) /\ line[i] = c

Parses(line) ==
    LET n == Len(line)
        Clients == {a \in 1..n :
                      /\ At(line, a + 1, " ") /\ At(line, a + 2, "-")
                      /\ At(line, a + 3, " ") /\ At(line, a + 4, "-")
                      /\ At(line, a + 5, " ") /\ At(line, a + 6, "[")
                      /\ NoneOf(line, 1, a, Whitespace)}
        Times(a) == {b \in (a + 7)..n :
                      /\ At(line, b + 1, "]") /\ At(line, b + 2, " ")
                      /\ At(line, b + 3, "\"")
                      /\ NoneOf(line, a + 7, b, {"]"})}
        Methods(b) == {c \in (b + 4)..n :
                      At(line, c + 1, " ") /\ NoneOf(line, b + 4, c, Whitespace)}
        Paths(c) == {d \in (c + 2)..n :
                      At(line, d + 1, " ") /\ NoneOf(line, c + 2, d, Whitespace)}
        Protocols(d) == {e \in (d + 2)..n :
                      /\ At(line, e + 1, "\"") /\ At(line, e + 2, " ")
                      /\ At(line, e + 6, " ")
                      /\ AllOf(line, e + 3, e + 5, Digit)
                      /\ NoneOf(line, d + 2, e, Whitespace)}
        Bytes(e) == {f \in (e + 7)..n :
                      \/ f = e + 7 /\ At(line, f, "-")
                      \/ /\ ~(f < n /\ line[f + 1] \in Digit)
                         /\ AllOf(line, e + 7, f, Digit)}
    IN  UNION {UNION {UNION {UNION {UNION {
            {<<a, b, c, d, e, f>> : f \in Bytes(e)}
            : e \in Protocols(d)} : d \in Paths(c)} : c \in Methods(b)}
            : b \in Times(a)} : a \in Clients}

MatchesGrammar(line) == Parses(line) # {}

\* the text of the seven fields of a parse
FieldsOf(line, p) ==
    << SubSeq(line, 1, p[1]),        SubSeq(line, p[1] + 7, p[2]),
       SubSeq(line, p[2] + 4, p[3]), SubSeq(line, p[3] + 2, p[4]),
       SubSeq(line, p[4] + 2, p[5]), SubSeq(line, p[5] + 3, p[5] + 5),
       SubSeq(line, p[5] + 7, p[6]) >>

\* the value of a run of decimal digits
RECURSIVE Decimal(_)
Decimal(ds) ==
    IF ds = <<>> THEN 0
    ELSE DigitVal(ds[1]) * 10 ^ (Len(ds) - 1) + Decimal(Tail(ds))

\* the positions, in order, of the lines among the first n that match the grammar
RECURSIVE MatchingLines(_, _)
MatchingLines(ls, n) ==
    IF n = 0 THEN <<>>
    ELSE IF MatchesGrammar(ls[n]) THEN Append(MatchingLines(ls, n - 1), n)
    ELSE MatchingLines(ls, n - 1)

\* analyze_logs has returned to main
Analyzed ==
    \/ pc \in {"save_to_json", "visualize", "plot_http_methods",
               "plot_status_codes", "plot_daily", "plot_top_paths", "report",
               "completed", "done"}
    \/ pc = "failed" /\ status_code = HttpOk

RecordFields == {"client", "log_time", "request_method", "request_path",
                 "request_protocol", "response_code", "bytes_transferred"}

\* C1: after analyze_logs the collection holds exactly one record for each
\* line that matches the grammar, in the order of those lines, each record
\* with the seven fields, the text fields being the fields of the line and
\* response_code and bytes_transferred integers; so there are as many
\* records as matching lines.
C1_OneRecordPerMatchingLine ==
    Analyzed =>
        LET src == MatchingLines(lines, Len(lines))
        IN  /\ Len(log_entries) = Len(src)
            /\ \A k \in 1..Len(src) :
                 \E p \in Parses(lines[src[k]]) :
                   LET g == FieldsOf(lines[src[k]], p)
                       r == log_entries[k]
                   IN  /\ DOMAIN r = RecordFields
                       /\ r.client = g[1]
                       /\ r.request_method = g[3]
                       /\ r.request_path = g[4]
                       /\ r.request_protocol = g[5]
                       /\ r.response_code = Decimal(g[6])
                       /\ r.bytes_transferred \in Nat

\* C1 witness: three lines, the middle one not matching, gave two records in
\* the order of their lines.
C1_Witness ==
    /\ Analyzed
    /\ Len(lines) = 3
    /\ lines[1] = LineSentinel /\ lines[2] = LineIndented /\ lines[3] = LineGood
    /\ Len(log_entries) = 2
    /\ log_entries[1].response_code = 404
    /\ log_entries[2].response_code = 200

\* C2: a line that is blank or does not match the grammar adds no record and
\* raises nothing, the loop goes on with the next line, and it ends only
\* when every line has been looked at, with a record for each matching line
\* wherever the other lines stand; no record with fewer than the seven
\* fields ever enters the collection.
C2_SkippedLinesAreSilent ==
    [][ /\ ( /\ pc = "for_line"
             /\ idx <= Len(lines)
             /\ ~MatchesGrammar(lines[idx]) )
           => ( /\ log_entries' = log_entries
                /\ pc' = "for_line"
                /\ idx' = idx + 1
                /\ lines' = lines
                /\ raised' = "" )
        /\ (pc = "for_line" /\ pc' # "for_line")
           => ( /\ idx > Len(lines)
                /\ pc' = "save_to_json"
                /\ Len(log_entries) = Len(MatchingLines(lines, Len(lines))) )
        /\ \A k \in 1..Len(log_entries') : DOMAIN log_entries'[k] = RecordFields
      ]_vars

\* C2 witness: a line with a two-digit status and a whitespace-only line
\* came before a matching line, which has its record.
C2_Witness ==
    /\ Analyzed
    /\ lines = <<LineShortStatus, LineSpaces, LineGood>>
    /\ Len(log_entries) = 1
    /\ log_entries[1].request_path = FieldsOf(LineGood, CHOOSE p \in Parses(LineGood) : TRUE)[4]

FetchError == "Error durante el analisis: No se pudieron descargar los logs"

\* C3: a response with a status other than 200 ends the run at once: nothing
\* is parsed, no record is appended, no output file is written, one request
\* was made, and main has caught the failure and printed its message.
C3_FetchFailureAbortsRun ==
    status_code \notin {0, HttpOk} =>
        /\ pc = "failed"
        /\ requests = 1
        /\ lines = <<>> /\ idx = 1
        /\ log_entries = <<>>
        /\ files = NoFiles
        /\ stdout = FetchError
        /\ raised = ""

\* C3 witness: the response was a 404 and main has ended in its except branch.
C3_Witness ==
    /\ status_code = 404
    /\ pc = "failed"
    /\ stdout = FetchError

\* C4: a run whose fetch succeeded and in which no line matched goes through
\* every output step without error and ends with the report written, its
\* total_requests and average_bytes_per_request being 0.
C4_EmptyRunProducesReport ==
    (status_code = HttpOk /\ pc \in {"done", "failed"} /\ log_entries = <<>>) =>
        /\ pc = "done"
        /\ \A name \in FileNames : files[name] # <<>>
        /\ files[ReportFile][1].total_requests = 0
        /\ files[ReportFile][1].average_bytes_per_request = Zero

\* C5: bytes_transferred of every record is a natural number: 0 when the
\* <bytes> field of its line is "-", else the value of the digits of that field.
C5_BytesNonNegative ==
    LET src == MatchingLines(lines, idx - 1)
    IN  \A k \in 1..Len(log_entries) :
          /\ log_entries[k].bytes_transferred \in Nat
          /\ k <= Len(src) =>
               \A p \in Parses(lines[src[k]]) :
                 LET bytes == FieldsOf(lines[src[k]], p)[7]
                 IN  log_entries[k].bytes_transferred =
                        IF bytes = <<"-">> THEN 0 ELSE Decimal(bytes)

\* C5 witness: a line with the sentinel and a line with 1024 gave the bytes
\* 0 and 1024.
C5_Witness ==
    /\ Analyzed
    /\ lines = <<LineSentinel, LineGood>>
    /\ Len(log_entries) = 2
    /\ log_entries[1].bytes_transferred = 0
    /\ log_entries[2].bytes_transferred = 1024

\* a date written YYYY-MM-DD
IsIsoDate(s) ==
    /\ Len(s) = 10
    /\ s[5] = "-" /\ s[8] = "-"
    /\ \A k \in {1, 2, 3, 4, 6, 7, 9, 10} : s[k] \in Digit
    /\ Decimal(SubSeq(s, 6, 7)) \in 1..12
    /\ Decimal(SubSeq(s, 9, 10)) \in 1..31

Indices(field, value) == {k \in 1..Len(log_entries) : log_entries[k][field] = value}
ValuesOf(field) == {log_entries[k][field] : k \in 1..Len(log_entries)}
FirstSeen(field, value) ==
    CHOOSE k \in Indices(field, value) : \A j \in Indices(field, value) : k <= j

RECURSIVE BytesOfFirst(_)
BytesOfFirst(n) ==
    IF n = 0 THEN 0 ELSE BytesOfFirst(n - 1) + log_entries[n].bytes_transferred

\* C6: the report gives the number of records, the number of distinct
\* clients, the sum of the bytes of the records and their quotient, which is
\* 0 for an empty collection; no call ends in a division by zero.
C6_ReportStatistics ==
    /\ raised # DivisionError
    /\ files[ReportFile] # <<>> =>
         LET report == files[ReportFile][1]
             n      == Len(log_entries)
             avg    == report.average_bytes_per_request
         IN  /\ report.total_requests = n
             /\ report.unique_clients = Cardinality(ValuesOf("client"))
             /\ report.total_bytes_transferred = BytesOfFirst(n)
             /\ IF n > 0
                THEN avg.den # 0 /\ avg.num * n = BytesOfFirst(n) * avg.den
                ELSE avg.num = 0 /\ avg.den = 1

\* C6 witness: the report of three records of two clients with 1031 bytes.
C6_Witness ==
    /\ files[ReportFile] # <<>>
    /\ Len(log_entries) = 3
    /\ files[ReportFile][1].unique_clients = 2
    /\ files[ReportFile][1].total_bytes_transferred = 1031
    /\ files[ReportFile][1].average_bytes_per_request = [num |-> 1031, den |-> 3]

DistinctPaths == ValuesOf("request_path")
PathCount(path) == Cardinality(Indices("request_path", path))
Earlier(p, q) == FirstSeen("request_path", p) < FirstSeen("request_path", q)

\* paths with their counts are the n most requested paths, most requested
\* first, paths of equal count in the order they were first met
IsTopN(paths, counts, n) ==
    /\ Len(paths) = Len(counts)
    /\ Len(paths) = IF n < Cardinality(DistinctPaths)
                    THEN n ELSE Cardinality(DistinctPaths)
    /\ \A i \in 1..Len(paths) :
         /\ paths[i] \in DistinctPaths
         /\ counts[i] = PathCount(paths[i])
    /\ \A i, j \in 1..Len(paths) :
         i < j => /\ paths[i] # paths[j]
                  /\ counts[i] >= counts[j]
                  /\ counts[i] = counts[j] => Earlier(paths[i], paths[j])
    /\ \A q \in DistinctPaths \ {paths[i] : i \in 1..Len(paths)} :
         \A i \in 1..Len(paths) :
           /\ PathCount(q) <= counts[i]
           /\ PathCount(q) = counts[i] => Earlier(paths[i], q)

\* C7: the top paths of the chart (top_n of its title) and of the report
\* (10) are the min(N, distinct paths) most requested paths with their
\* counts, by count descending, no left-out path being requested more than a
\* listed one, and paths of equal count ordered and chosen by first encounter.
C7_TopPaths ==
    /\ files[TopPathsPng] # <<>> =>
         LET chart == files[TopPathsPng][1]
         IN  IsTopN(chart.y, chart.x, chart.title)
    /\ files[ReportFile] # <<>> =>
         LET top == files[ReportFile][1].top_10_paths
         IN  IsTopN(Keys(top), Values(top), 10)

\* C7 witness: /a three times, /b once and /c twice asked with top_n = 2
\* give /a: 3 then /c: 2.
C7_Witness ==
    /\ files[TopPathsPng] # <<>>
    /\ files[TopPathsPng][1].title = 2
    /\ PathCount(GroupsA[4]) = 3 /\ PathCount(GroupsB[4]) = 1
    /\ PathCount(GroupsC[4]) = 2
    /\ files[TopPathsPng][1].y = <<GroupsA[4], GroupsC[4]>>
    /\ files[TopPathsPng][1].x = <<3, 2>>

\* a comes before b in the order of strings
LexLess(a, b) ==
    \E k \in 1..Len(b) :
      /\ k <= Len(a) + 1
      /\ \A j \in 1..(k - 1) : a[j] = b[j]
      /\ k = Len(a) + 1 \/ Ord(a[k]) < Ord(b[k])

\* C8: the daily trend lists each distinct log_time once, in ascending order
\* of strings, each with the number of records of that log_time, so that the
\* counts add up to the number of records.
C8_DailyTrend ==
    files[DailyPng] # <<>> =>
        LET dates  == files[DailyPng][1].x
            counts == files[DailyPng][1].y
        IN  /\ Len(dates) = Len(counts)
            /\ {dates[k] : k \in 1..Len(dates)} = ValuesOf("log_time")
            /\ Len(dates) = Cardinality(ValuesOf("log_time"))
            /\ \A i, j \in 1..Len(dates) : i < j => LexLess(dates[i], dates[j])
            /\ \A k \in 1..Len(dates) :
                 counts[k] = Cardinality(Indices("log_time", dates[k]))
            /\ Sum(counts) = Len(log_entries)

\* C8 witness: the dates 2023-01-02, 2023-01-01, 2023-01-02 give
\* (2023-01-01, 1), (2023-01-02, 2).
C8_Witness ==
    /\ files[DailyPng] # <<>>
    /\ Column(log_entries, "log_time") = <<GroupsA[2], GroupsB[2], GroupsA[2]>>
    /\ files[DailyPng][1].x = <<GroupsB[2], GroupsA[2]>>
    /\ files[DailyPng][1].y = <<1, 2>>

\* C10: no call of save_to_json, of a plot method or of
\* generate_analysis_report, in whatever order and however often, changes
\* the collection analyze_logs left.
C10_CollectionIsWriteOnce == [][log_entries' = log_entries]_vars

\* C10 witness: every method has been called on a collection of records and
\* has written its file.
C10_Witness ==
    /\ pc = "api"
    /\ Len(log_entries) >= 3
    /\ \A name \in FileNames : files[name] # <<>>
    /\ files[JsonFile][1] = log_entries

====
